---- MODULE Spec2Model ----
(***************************************************************************)
(* A model of DynamicMatrix<T> (src/src/dynamic/row_major.rs): a row-major *)
(* matrix stored in one Vec<T> (`data`) together with a column count       *)
(* (`cols`).  The row count is derived as data.len() / cols.               *)
(*                                                                         *)
(* A matrix value is the record [data, cols, cap]: `data` is the element   *)
(* sequence of the Vec, `cap` is the Vec's capacity, `cols` is the field.  *)
(* Offsets are 0-based as in the source; TLA+ sequences are 1-based, so    *)
(* the element at offset k is data[k + 1].                                 *)
(***************************************************************************)
EXTENDS Integers, Sequences, FiniteSets, TLC

\* Largest column count a matrix is constructed with or grown to.
MaxCols == 3
\* Largest number of elements the buffer is grown to.
MaxLen == 6
\* Largest number of spare slots an allocation leaves beyond what was asked.
MaxSlack == 1

\* The values of the element type T.
Elem == {1, 2}

\* All sequences over Elem of length at most n.
SeqsUpTo(n) == UNION {[1..k -> Elem] : k \in 0..n}

\* Lengths of the rows and columns handed to push_row and push_col.
MaxArg == MaxCols + 1

VARIABLES
    mat,      \* the matrix: [data, cols, cap]
    live,     \* FALSE while the matrix has been consumed by into_boxed_slice
              \* (mat then holds the value that was moved into the call)
    boxed,    \* the (Box<[T]>, usize) pair returned by into_boxed_slice, kept
              \* until the caller is done with the matrix rebuilt from it
    op,       \* the last call: [name, arg]
    ret,      \* what the last call returned
    mat2,     \* second matrix of the capacity comparison (built by new_with_cols)
    ret2,     \* what the last call returned on mat2
    frame,    \* the push_col call in progress: [pc, col, i, cols0, offset]
    libmat    \* the Mat of lib.rs: [data, rows, cols, cap]

vars == <<mat, live, boxed, op, ret, mat2, ret2, frame, libmat>>

----------------------------------------------------------------------------
(* Return values *)

Ok == [kind |-> "Ok"]
OkRef(self, offset) == [kind |-> "Ok", offset |-> offset, value |-> self.data[offset + 1]]
OkVal(v) == [kind |-> "Ok", value |-> v]
Panic == [kind |-> "panic"]

\* ShapeError::new_rows_error(rows, expected_rows)
new_rows_error(r, expected_rows) ==
    [kind |-> "ShapeError", rows |-> r, cols |-> 0,
     expected_rows |-> expected_rows, expected_cols |-> 0]

\* new_cols_error with its two arguments taken in the other order.
new_cols_error_swapped(c, expected_cols) ==
    [kind |-> "ShapeError", rows |-> 0, cols |-> expected_cols,
     expected_rows |-> 0, expected_cols |-> c]

\* ShapeError::new_cols_error(cols, expected_cols)
new_cols_error(c, expected_cols) ==
    [kind |-> "ShapeError", rows |-> 0, cols |-> c,
     expected_rows |-> 0, expected_cols |-> expected_cols]

\* IndexingError::new(index, shape)
IndexingError_new(index, shp) ==
    [kind |-> "IndexingError", row |-> index[1], col |-> index[2],
     nrows |-> shp[1], ncols |-> shp[2]]

----------------------------------------------------------------------------
(* The Vec operations the matrix uses *)

\* Vec::insert(index, e) for index <= len: e ends up at offset index.
Vec_insert(v, index, e) ==
    SubSeq(v, 1, index) \o <<e>> \o SubSeq(v, index + 1, Len(v))

\* The capacities a Vec of capacity cap may have once it holds `needed`
\* elements: unchanged if they fit, otherwise whatever the growth strategy
\* picks (at least `needed`; Vec promises no particular strategy).
Vec_grow(cap, needed) ==
    IF needed <= cap THEN {cap} ELSE needed..(needed + MaxSlack)

\* The matrix values m may be after its buffer was (re)allocated to hold it.
Realloc(m) == {[m EXCEPT !.cap = k] : k \in Vec_grow(m.cap, Len(m.data))}

\* The matrix values m may be when its capacity was asked for with
\* Vec::with_capacity: at least what was asked.
Reserve(m) == {[m EXCEPT !.cap = k] : k \in m.cap..(m.cap + MaxSlack)}

----------------------------------------------------------------------------
(* Constructors *)

RECURSIVE flatten(_)
flatten(nested) ==
    IF Len(nested) = 0 THEN <<>> ELSE Head(nested) \o flatten(Tail(nested))

\* DynamicMatrix::new(data: [[T; COLS]; ROWS]), ROWS >= 1 (data[0] panics otherwise).
\* The capacity the collected Vec gets is in Realloc's hands.
new(nested) == [data |-> flatten(nested), cols |-> Len(nested[1]), cap |-> 0]

new_with_cols(c) == [data |-> <<>>, cols |-> c, cap |-> 0]

\* Vec::with_capacity(n) reserves at least n: see Reserve.
with_capacity(shp) == [data |-> <<>>, cols |-> shp[2], cap |-> shp[1] * shp[2]]

\* from_boxed_slice taking the length of the slice for the column count.
from_boxed_slice_one_row(boxed_slice, c) ==
    [data |-> boxed_slice, cols |-> Len(boxed_slice), cap |-> Len(boxed_slice)]

from_boxed_slice(boxed_slice, c) ==
    [data |-> boxed_slice, cols |-> c, cap |-> Len(boxed_slice)]

into_boxed_slice(self) == [slice |-> self.data, cols |-> self.cols]

----------------------------------------------------------------------------
(* Queries *)

\* Defined for self.cols > 0 only: the division panics on a zero column count.
rows(self) == Len(self.data) \div self.cols

cols(self) == self.cols

shape(self) == <<rows(self), cols(self)>>

len(self) == self.cap

capacity(self) == self.cap

----------------------------------------------------------------------------
(* Appends.  A method yields [mat |-> the matrix afterwards, ret |-> result]; *)
(* the capacity after a growth is left to Realloc.                          *)

\* push_row without the length check.
push_row_unchecked(self, row) ==
    [mat |-> [self EXCEPT !.data = self.data \o row], ret |-> Ok]

\* push_row putting the row in front of the buffer.
push_row_prepend(self, row) ==
    IF Len(row) # self.cols
    THEN [mat |-> self, ret |-> new_cols_error(self.cols, Len(row))]
    ELSE [mat |-> [self EXCEPT !.data = row \o self.data], ret |-> Ok]

\* push_row extending the buffer before it checks the length.
push_row_extend_first(self, row) ==
    IF Len(row) # self.cols
    THEN [mat |-> [self EXCEPT !.data = self.data \o row],
          ret |-> new_cols_error(self.cols, Len(row))]
    ELSE [mat |-> [self EXCEPT !.data = self.data \o row], ret |-> Ok]

push_row(self, row) ==
    IF Len(row) # cols(self)
    THEN [mat |-> self, ret |-> new_cols_error(cols(self), Len(row))]
    ELSE [mat |-> [self EXCEPT !.data = self.data \o row], ret |-> Ok]

\* The insertion offset with a stride of c + 1 on top of the shift.
push_col_index_wide(c, i) == c + i * (c + 1) + i

\* The insertion offset without the shift by the elements already inserted.
push_col_index_no_shift(c, i) == c + c * i

\* The offset push_col inserts the i-th element of the column at (i from 0).
push_col_index(c, i) == c + c * i + i

\* The loop of push_col from its i-th iteration on, over the buffer d.
\* Vec::insert panics when the index exceeds the length.
RECURSIVE push_col_loop(_, _, _, _)
push_col_loop(d, c, col, i) ==
    IF i = Len(col) THEN [data |-> d, panicked |-> FALSE]
    ELSE IF push_col_index(c, i) > Len(d) THEN [data |-> d, panicked |-> TRUE]
    ELSE push_col_loop(Vec_insert(d, push_col_index(c, i), col[i + 1]), c, col, i + 1)

push_col(self, col) ==
    IF cols(self) = 0 THEN [mat |-> self, ret |-> Panic]
    ELSE IF Len(col) # rows(self)
    THEN [mat |-> self, ret |-> new_rows_error(rows(self), Len(col))]
    ELSE LET l == push_col_loop(self.data, cols(self), col, 0) IN
         IF l.panicked THEN [mat |-> [self EXCEPT !.data = l.data], ret |-> Panic]
         ELSE [mat |-> [self EXCEPT !.data = l.data, !.cols = self.cols + 1], ret |-> Ok]

----------------------------------------------------------------------------
(* Checked access *)

\* get with the row count for the stride.
get_wrong_stride(self, index) ==
    IF self.cols = 0 THEN Panic
    ELSE IF index[1] < rows(self) /\ index[2] < self.cols
    THEN IF index[1] * rows(self) + index[2] < Len(self.data)
         THEN OkRef(self, index[1] * rows(self) + index[2])
         ELSE Panic
    ELSE IndexingError_new(index, shape(self))

\* get_mut letting the row index reach rows().
get_mut_inclusive(self, index) ==
    IF self.cols = 0 THEN Panic
    ELSE IF index[1] <= rows(self) /\ index[2] < self.cols
    THEN IF index[1] * self.cols + index[2] < Len(self.data)
         THEN OkRef(self, index[1] * self.cols + index[2])
         ELSE Panic
    ELSE IndexingError_new(index, shape(self))

\* get and get_mut share their body; on success the reference is to the
\* element at the returned offset.
get(self, index) ==
    IF cols(self) = 0 THEN Panic
    ELSE IF index[1] < rows(self) /\ index[2] < cols(self)
    THEN IF index[1] * cols(self) + index[2] < Len(self.data)
         THEN OkRef(self, index[1] * cols(self) + index[2])
         ELSE Panic
    ELSE IndexingError_new(index, shape(self))

get_mut(self, index) ==
    IF cols(self) = 0 THEN Panic
    ELSE IF index[1] < rows(self) /\ index[2] < cols(self)
    THEN IF index[1] * cols(self) + index[2] < Len(self.data)
         THEN OkRef(self, index[1] * cols(self) + index[2])
         ELSE Panic
    ELSE IndexingError_new(index, shape(self))

\* The matrix after v was stored through the reference a get_mut returned.
store(self, r, v) ==
    IF r.kind = "Ok" THEN [self EXCEPT !.data[r.offset + 1] = v] ELSE self

----------------------------------------------------------------------------
(* One matrix under every call of the public interface.  The caller makes  *)
(* one call at a time: op and ret hold the call and its result until the   *)
(* caller is done with the result (Return).                                *)

Call(name, arg) == [name |-> name, arg |-> arg]

NoCall == Call("none", <<>>)
NoRet == [kind |-> "none"]
Idle == op = NoCall

NoBox == [slice |-> <<>>, cols |-> 0]

\* No push_col call is in progress.
NoFrame == [pc |-> "none", col |-> <<>>, i |-> 0, cols0 |-> 0, offset |-> 0]

\* The value libmat has where no Mat is under study.
NoMat == [data |-> <<>>, rows |-> 0, cols |-> 0, cap |-> 0]

\* The coordinates handed to get and get_mut: in range and out of range.
Indices == (0..(MaxCols + 1)) \X (0..(MaxCols + 1))

\* The nested arrays [[T; C]; R] handed to new.
Nested == UNION {[1..s[1] -> [1..s[2] -> Elem]] :
                 s \in {t \in (1..MaxLen) \X (0..MaxCols) : t[1] * t[2] <= MaxLen}}

InitNew ==
    \E nested \in Nested :
        /\ mat \in Realloc(new(nested))
        /\ op = Call("new", <<>>)

InitNewWithCols ==
    \E c \in 0..MaxCols :
        /\ mat = new_with_cols(c)
        /\ op = Call("new_with_cols", <<c>>)

InitWithCapacity ==
    \E r \in 0..MaxCols, c \in 0..MaxCols :
        /\ mat \in Reserve(with_capacity(<<r, c>>))
        /\ op = Call("with_capacity", <<r, c>>)

InitFromBoxedSlice ==
    \E b \in SeqsUpTo(MaxLen), c \in 0..MaxCols :
        /\ mat = from_boxed_slice(b, c)
        /\ op = Call("from_boxed_slice", <<c>>)

\* The second matrix is not part of the single-matrix specifications.
Single == mat2 = new_with_cols(0) /\ ret2 = NoRet

Constructed ==
    /\ live = TRUE
    /\ boxed = NoBox
    /\ ret = Ok
    /\ frame = NoFrame
    /\ libmat = NoMat

Init ==
    /\ InitNew \/ InitNewWithCols \/ InitWithCapacity \/ InitFromBoxedSlice
    /\ Constructed
    /\ Single

PushRow ==
    \E row \in SeqsUpTo(MaxArg) :
        /\ Idle /\ live
        /\ Len(mat.data) + Len(row) <= MaxLen
        /\ mat' \in Realloc(push_row(mat, row).mat)
        /\ ret' = push_row(mat, row).ret
        /\ op' = Call("push_row", row)
        /\ UNCHANGED <<frame, libmat, live, boxed, mat2, ret2>>

PushCol ==
    \E col \in SeqsUpTo(MaxArg) :
        /\ Idle /\ live
        /\ Len(mat.data) + Len(col) <= MaxLen
        /\ mat.cols < MaxCols
        /\ mat' \in Realloc(push_col(mat, col).mat)
        /\ ret' = push_col(mat, col).ret
        /\ op' = Call("push_col", col)
        /\ UNCHANGED <<frame, libmat, live, boxed, mat2, ret2>>

Get ==
    \E index \in Indices :
        /\ Idle /\ live
        /\ ret' = get(mat, index)
        /\ op' = Call("get", index)
        /\ UNCHANGED <<frame, libmat, mat, live, boxed, mat2, ret2>>

\* get_mut, and a store of v through the reference it returned.
GetMut ==
    \E index \in Indices, v \in Elem :
        /\ Idle /\ live
        /\ ret' = get_mut(mat, index)
        /\ mat' = store(mat, get_mut(mat, index), v)
        /\ op' = Call("get_mut", <<index[1], index[2], v>>)
        /\ UNCHANGED <<frame, libmat, live, boxed, mat2, ret2>>

QueryLen ==
    /\ Idle /\ live
    /\ ret' = OkVal(len(mat))
    /\ op' = Call("len", <<>>)
    /\ UNCHANGED <<frame, libmat, mat, live, boxed, mat2, ret2>>

QueryCapacity ==
    /\ Idle /\ live
    /\ ret' = OkVal(capacity(mat))
    /\ op' = Call("capacity", <<>>)
    /\ UNCHANGED <<frame, libmat, mat, live, boxed, mat2, ret2>>

\* into_boxed_slice takes the matrix by value: no matrix is left afterwards.
IntoBoxedSlice ==
    /\ Idle /\ live
    /\ boxed' = into_boxed_slice(mat)
    /\ live' = FALSE
    /\ ret' = Ok
    /\ op' = Call("into_boxed_slice", <<>>)
    /\ UNCHANGED <<frame, libmat, mat, mat2, ret2>>

\* from_boxed_slice on the box a matrix was decomposed into, with any column count.
FromBoxedSlice ==
    \E c \in 0..MaxCols :
        /\ Idle /\ ~live
        /\ mat' = from_boxed_slice(boxed.slice, c)
        /\ live' = TRUE
        /\ ret' = Ok
        /\ op' = Call("from_boxed_slice", <<c>>)
        /\ UNCHANGED <<frame, libmat, boxed, mat2, ret2>>

\* The caller is done with the result of the last call.
Return ==
    /\ ~Idle
    /\ frame = NoFrame
    /\ op' = NoCall
    /\ ret' = NoRet
    /\ ret2' = NoRet
    /\ boxed' = IF live THEN NoBox ELSE boxed
    /\ UNCHANGED <<frame, libmat, mat, live, mat2>>

Next ==
    \/ PushRow
    \/ PushCol
    \/ Get
    \/ GetMut
    \/ QueryLen
    \/ QueryCapacity
    \/ IntoBoxedSlice
    \/ FromBoxedSlice
    \/ Return

Spec == Init /\ [][Next]_vars

----------------------------------------------------------------------------
(* A matrix built by new_with_cols under appends only *)

InitAppend == InitNewWithCols /\ Constructed /\ Single

NextAppend == PushRow \/ PushCol \/ Return

SpecAppend == InitAppend /\ [][NextAppend]_vars

----------------------------------------------------------------------------
(* Two matrices of the same column count under the same calls: mat built   *)
(* by with_capacity, mat2 by new_with_cols.                                *)

InitCap ==
    /\ \E r \in 0..MaxCols, c \in 0..MaxCols :
        /\ mat \in Reserve(with_capacity(<<r, c>>))
        /\ mat2 = new_with_cols(c)
        /\ op = Call("with_capacity", <<r, c>>)
    /\ Constructed
    /\ ret2 = Ok

CapPushRow ==
    \E row \in SeqsUpTo(MaxArg) :
        /\ Idle
        /\ Len(mat.data) + Len(row) <= MaxLen
        /\ Len(mat2.data) + Len(row) <= MaxLen
        /\ mat' \in Realloc(push_row(mat, row).mat)
        /\ ret' = push_row(mat, row).ret
        /\ mat2' \in Realloc(push_row(mat2, row).mat)
        /\ ret2' = push_row(mat2, row).ret
        /\ op' = Call("push_row", row)
        /\ UNCHANGED <<frame, libmat, live, boxed>>

CapPushCol ==
    \E col \in SeqsUpTo(MaxArg) :
        /\ Idle
        /\ Len(mat.data) + Len(col) <= MaxLen
        /\ Len(mat2.data) + Len(col) <= MaxLen
        /\ mat.cols < MaxCols /\ mat2.cols < MaxCols
        /\ mat' \in Realloc(push_col(mat, col).mat)
        /\ ret' = push_col(mat, col).ret
        /\ mat2' \in Realloc(push_col(mat2, col).mat)
        /\ ret2' = push_col(mat2, col).ret
        /\ op' = Call("push_col", col)
        /\ UNCHANGED <<frame, libmat, live, boxed>>

CapGet ==
    \E index \in Indices :
        /\ Idle
        /\ ret' = get(mat, index)
        /\ ret2' = get(mat2, index)
        /\ op' = Call("get", index)
        /\ UNCHANGED <<frame, libmat, mat, mat2, live, boxed>>

NextCap == CapPushRow \/ CapPushCol \/ CapGet \/ Return

SpecCap == InitCap /\ [][NextCap]_vars

----------------------------------------------------------------------------
(* push_col one loop iteration at a time: the check of the length, one     *)
(* Vec::insert per element of the column, then the increment of cols.      *)

\* The call is entered: cols() and rows() are read and the length checked.
ColBegin ==
    \E col \in SeqsUpTo(MaxArg) :
        /\ Idle /\ live /\ frame = NoFrame
        /\ Len(mat.data) + Len(col) <= MaxLen
        /\ mat.cols < MaxCols
        /\ op' = Call("push_col", col)
        /\ IF cols(mat) = 0
           THEN ret' = Panic /\ frame' = frame
           ELSE IF Len(col) # rows(mat)
           THEN ret' = new_rows_error(rows(mat), Len(col)) /\ frame' = frame
           ELSE /\ ret' = NoRet
                /\ frame' = [pc |-> "loop", col |-> col, i |-> 0,
                             cols0 |-> cols(mat), offset |-> 0]
        /\ UNCHANGED <<mat, live, boxed, mat2, ret2, libmat>>

\* One iteration: self.data.insert(self.cols() + self.cols() * i + i, e).
ColInsert ==
    /\ frame.pc = "loop"
    /\ frame.i < Len(frame.col)
    /\ IF push_col_index(cols(mat), frame.i) > Len(mat.data)
       THEN /\ ret' = Panic
            /\ frame' = NoFrame
            /\ mat' = mat
       ELSE /\ ret' = ret
            /\ frame' = [frame EXCEPT !.i = frame.i + 1,
                                      !.offset = push_col_index(cols(mat), frame.i)]
            /\ mat' \in Realloc([mat EXCEPT !.data =
                   Vec_insert(mat.data, push_col_index(cols(mat), frame.i),
                              frame.col[frame.i + 1])])
    /\ UNCHANGED <<live, boxed, op, mat2, ret2, libmat>>

\* The loop is over: self.cols += 1; Ok(()).
ColEnd ==
    /\ frame.pc = "loop"
    /\ frame.i = Len(frame.col)
    /\ mat' = [mat EXCEPT !.cols = mat.cols + 1]
    /\ ret' = Ok
    /\ frame' = NoFrame
    /\ UNCHANGED <<live, boxed, op, mat2, ret2, libmat>>

NextCol ==
    \/ PushRow
    \/ ColBegin
    \/ ColInsert
    \/ ColEnd
    \/ Get
    \/ GetMut
    \/ Return

SpecCol == Init /\ [][NextCol]_vars

----------------------------------------------------------------------------
(* Mat<T> of the crate root (src/src/lib.rs): the buffer, and the row and  *)
(* column counts as fields.                                                *)

\* ShapeError::new_cols_error(cols, expected_cols) of src/src/errors.rs
errors_new_cols_error(c, expected_cols) ==
    [kind |-> "ShapeError", rows |-> 0, cols |-> c,
     expected_rows |-> 0, expected_cols |-> expected_cols]

\* Mat::new(shape): Vec::with_capacity(shape.0 * shape.1), see Reserve.
Mat_new(shp) ==
    [data |-> <<>>, rows |-> shp[1], cols |-> shp[2], cap |-> shp[1] * shp[2]]

Mat_as_slice(self) == self.data

Mat_rows(self) == self.rows

Mat_cols(self) == self.cols

Mat_shape(self) == <<self.rows, self.cols>>

Mat_push_row(self, row) ==
    IF Len(row) # self.cols
    THEN [mat |-> self, ret |-> errors_new_cols_error(self.cols, Len(row))]
    ELSE [mat |-> [self EXCEPT !.data = self.data \o row, !.rows = self.rows + 1],
          ret |-> Ok]

InitMat ==
    /\ \E r \in 0..MaxCols, c \in 0..MaxCols :
        /\ libmat \in Reserve(Mat_new(<<r, c>>))
        /\ op = Call("Mat::new", <<r, c>>)
    /\ ret = Ok
    /\ mat = new_with_cols(0)
    /\ live = TRUE
    /\ boxed = NoBox
    /\ frame = NoFrame
    /\ Single

\* The row count grows without a row of elements when cols is 0: it is
\* kept within MaxCols + MaxLen.
MatPushRow ==
    \E row \in SeqsUpTo(MaxArg) :
        /\ Idle
        /\ Len(libmat.data) + Len(row) <= MaxLen
        /\ libmat.rows < MaxCols + MaxLen
        /\ libmat' \in Realloc(Mat_push_row(libmat, row).mat)
        /\ ret' = Mat_push_row(libmat, row).ret
        /\ op' = Call("push_row", row)
        /\ UNCHANGED <<mat, live, boxed, mat2, ret2, frame>>

NextMat == MatPushRow \/ Return

SpecMat == InitMat /\ [][NextMat]_vars

----------------------------------------------------------------------------
(* Properties *)

\* The r-th row (from 0) of m, for m.cols > 0.
Row(m, r) == SubSeq(m.data, r * m.cols + 1, (r + 1) * m.cols)

\* C1: a matrix built by new_with_cols(c), c > 0, has a buffer of exactly
\* rows() * cols() elements after every sequence of push_row and push_col
\* calls, accepted or rejected.  (SpecAppend)
C1_ShapeInvariant ==
    mat.cols > 0 => Len(mat.data) = rows(mat) * cols(mat)

C1_Witness ==
    /\ op.name = "push_col" /\ ret.kind = "Ok"
    /\ mat.cols >= 3 /\ rows(mat) >= 2

\* C2: in every matrix the safe constructors and appends produce, the
\* buffer length is an exact multiple of cols() (invariant I1).
C2_BufferMultipleOfCols ==
    (live /\ mat.cols > 0) => Len(mat.data) % mat.cols = 0

\* C3: on a matrix with cols() > 0, push_row of a row of cols() elements
\* succeeds, adds one row, keeps cols(), keeps every stored element at its
\* coordinate and offset, and the buffer becomes the old buffer followed by
\* the row.
C3_PushRowAppends ==
    [][(op'.name = "push_row" /\ mat.cols > 0 /\ Len(op'.arg) = mat.cols) =>
        /\ ret'.kind = "Ok"
        /\ cols(mat') = cols(mat)
        /\ rows(mat') = rows(mat) + 1
        /\ mat'.data = mat.data \o op'.arg
        /\ \A r \in 0..(rows(mat) - 1), c \in 0..(cols(mat) - 1) :
              get(mat', <<r, c>>) = get(mat, <<r, c>>)]_vars

C3_Witness ==
    /\ op.name = "push_row" /\ ret.kind = "Ok"
    /\ mat.cols >= 2 /\ rows(mat) >= 2

\* C4: on a matrix with cols() > 0 whose buffer length is a multiple of
\* cols(), push_col of a column of rows() elements succeeds, adds one column,
\* keeps rows(), and every row becomes the old row followed by its element of
\* the column; with zero rows the buffer stays empty.
C4_PushColAppends ==
    [][(/\ op'.name = "push_col"
        /\ mat.cols > 0
        /\ Len(mat.data) % mat.cols = 0
        /\ Len(op'.arg) = rows(mat)) =>
        /\ ret'.kind = "Ok"
        /\ cols(mat') = cols(mat) + 1
        /\ rows(mat') = rows(mat)
        /\ Len(mat'.data) = rows(mat) * (cols(mat) + 1)
        /\ \A r \in 0..(rows(mat) - 1) :
              Row(mat', r) = Row(mat, r) \o <<op'.arg[r + 1]>>]_vars

C4_Witness ==
    /\ op.name = "push_col" /\ ret.kind = "Ok"
    /\ mat.cols >= 3 /\ Len(mat.data) >= 2 * mat.cols

\* C5: a push_row with row.len() != cols(), and a push_col with
\* col.len() != rows(), returns a ShapeError and leaves the matrix as it was.
C5_RejectedAppendUnchanged ==
    [][(\/ (op'.name = "push_row" /\ Len(op'.arg) # mat.cols)
        \/ (op'.name = "push_col" /\ mat.cols > 0 /\ Len(op'.arg) # rows(mat))) =>
        /\ ret'.kind = "ShapeError"
        /\ mat' = mat]_vars

C5_Witness ==
    /\ op.name \in {"push_row", "push_col"} /\ ret.kind = "ShapeError"
    /\ Len(op.arg) > 0 /\ Len(mat.data) > 0

\* C6 as stated: the ShapeError of a rejected push_row has expected_cols =
\* cols() and cols = row.len(); that of a rejected push_col has
\* expected_rows = rows() and rows = col.len().
C6_ExpectedIsMatrixDimension ==
    [][(ret'.kind = "ShapeError") =>
        /\ op'.name = "push_row" =>
              ret'.expected_cols = mat.cols /\ ret'.cols = Len(op'.arg)
        /\ op'.name = "push_col" =>
              ret'.expected_rows = rows(mat) /\ ret'.rows = Len(op'.arg)]_vars

\* C6 amended: the ShapeError of a rejected push_row has cols = cols() and
\* expected_cols = row.len(); that of a rejected push_col has rows = rows()
\* and expected_rows = col.len(); the fields of the other dimension are 0.
C6_ShapeErrorFields ==
    [][(ret'.kind = "ShapeError") =>
        /\ op'.name = "push_row" =>
              ret' = [kind |-> "ShapeError", rows |-> 0, cols |-> mat.cols,
                      expected_rows |-> 0, expected_cols |-> Len(op'.arg)]
        /\ op'.name = "push_col" =>
              ret' = [kind |-> "ShapeError", rows |-> rows(mat), cols |-> 0,
                      expected_rows |-> Len(op'.arg), expected_cols |-> 0]]_vars

C6_Witness ==
    /\ op.name = "push_row" /\ ret.kind = "ShapeError"
    /\ mat.cols = 3 /\ Len(op.arg) = 4

\* C7: on a matrix with cols() > 0, get and get_mut succeed exactly when
\* row < rows() and col < cols(); on success the reference is to the element
\* at offset row * cols() + col; otherwise the IndexingError carries the
\* requested (row, col) and (rows(), cols()), and the matrix is as it was.
C7_CheckedAccess ==
    [][(op'.name \in {"get", "get_mut"} /\ mat.cols > 0) =>
        LET row == op'.arg[1]
            col == op'.arg[2]
            offset == row * cols(mat) + col
        IN  /\ ret'.kind = "Ok" <=> (row < rows(mat) /\ col < cols(mat))
            /\ ret'.kind = "Ok" =>
                  /\ offset < Len(mat.data)
                  /\ ret'.offset = offset
                  /\ ret'.value = mat.data[offset + 1]
                  /\ op'.name = "get" => mat' = mat
                  /\ op'.name = "get_mut" =>
                        mat' = [mat EXCEPT !.data[offset + 1] = op'.arg[3]]
            /\ ret'.kind # "Ok" =>
                  /\ ret' = [kind |-> "IndexingError", row |-> row, col |-> col,
                             nrows |-> rows(mat), ncols |-> cols(mat)]
                  /\ mat' = mat]_vars

C7_Witness ==
    /\ op.name = "get" /\ ret.kind = "Ok"
    /\ op.arg[1] >= 1 /\ op.arg[2] >= 1 /\ mat.cols >= 3

\* C8: len() returns the number of elements stored in the buffer.
C8_LenIsElementCount ==
    op.name = "len" => ret.value = Len(mat.data)

\* C9: a matrix built by with_capacity((r, c)) and one built by
\* new_with_cols(c) return the same result for every call and agree on
\* rows(), cols(), shape(), len() and the elements after every step; that of
\* with_capacity starts with no rows and capacity() >= r * c.  (SpecCap)
C9_CapacityNotObservable ==
    /\ ret = ret2
    /\ mat.data = mat2.data
    /\ cols(mat) = cols(mat2)
    /\ mat.cols > 0 => shape(mat) = shape(mat2)
    /\ len(mat) = len(mat2)
    /\ op.name = "with_capacity" =>
          /\ Len(mat.data) = 0
          /\ capacity(mat) >= op.arg[1] * op.arg[2]

\* C10: into_boxed_slice returns the matrix's elements and cols(), and
\* from_boxed_slice of that pair is a matrix with the same cols(), rows() and
\* elements as the one decomposed.
C10_BoxedRoundTrip ==
    [][/\ op'.name = "into_boxed_slice" =>
              boxed'.slice = mat.data /\ boxed'.cols = mat.cols
       /\ (~live /\ op'.name = "from_boxed_slice" /\ op'.arg[1] = boxed.cols) =>
              /\ mat'.data = mat.data
              /\ cols(mat') = cols(mat)
              /\ mat.cols > 0 => rows(mat') = rows(mat)]_vars

C10_Witness ==
    /\ op.name = "from_boxed_slice" /\ live
    /\ boxed.slice = mat.data /\ boxed.cols = mat.cols
    /\ mat.cols >= 2 /\ Len(mat.data) >= 2 * mat.cols

\* C11 as stated: a successful push_col on a matrix of C columns inserts
\* its i-th element (from 0) at offset C + i * (C + 1) + i, and cols() is
\* incremented only after all insertions.  (SpecCol)
C11_InsertOffsetAsStated ==
    [][/\ (frame.pc = "loop" /\ frame'.pc = "loop") =>
              /\ frame'.offset = frame.cols0 + frame.i * (frame.cols0 + 1) + frame.i
              /\ cols(mat') = frame.cols0
       /\ cols(mat') # cols(mat) =>
              /\ frame.pc = "loop" /\ frame.i = Len(frame.col)
              /\ cols(mat') = frame.cols0 + 1]_vars

\* C11 amended: the i-th element is inserted at offset C + i * C + i
\* (= C + i * (C + 1)), where it is found afterwards; cols() stays C during
\* the insertions and is incremented once they are all done.  (SpecCol)
C11_InsertOffset ==
    [][/\ (frame.pc = "loop" /\ frame'.pc = "loop") =>
              /\ frame'.offset = frame.cols0 + frame.i * frame.cols0 + frame.i
              /\ Len(mat'.data) = Len(mat.data) + 1
              /\ mat'.data[frame'.offset + 1] = frame.col[frame.i + 1]
              /\ cols(mat') = frame.cols0
       /\ cols(mat') # cols(mat) =>
              /\ frame.pc = "loop" /\ frame.i = Len(frame.col)
              /\ cols(mat') = frame.cols0 + 1]_vars

C11_Witness ==
    /\ frame.pc = "loop" /\ frame.i = 2 /\ frame.cols0 = 2
    /\ frame.offset = 5

\* C12: in every state reached from any constructor (from_boxed_slice with
\* a length that is no multiple of cols included) by push_row, push_col, get
\* and get_mut, with cols() > 0: every (row, col) with row < rows() and
\* col < cols() has its offset row * cols() + col below the buffer length, get
\* and get_mut never reach unreachable!(), and every offset push_col is about
\* to insert at is at most the buffer length of that moment.  (SpecCol)
C12_OffsetsInBounds ==
    (live /\ mat.cols > 0) =>
        /\ \A r \in 0..(rows(mat) - 1), c \in 0..(cols(mat) - 1) :
              r * cols(mat) + c < Len(mat.data)
        /\ op.name \in {"get", "get_mut", "push_col"} => ret.kind # "panic"
        /\ (frame.pc = "loop" /\ frame.i < Len(frame.col)) =>
              push_col_index(cols(mat), frame.i) <= Len(mat.data)

C12_Witness ==
    /\ op.name = "get_mut" /\ ret.kind = "Ok"
    /\ mat.cols >= 2 /\ Len(mat.data) % mat.cols # 0
    /\ op.arg[1] >= 1 /\ op.arg[2] >= 1

\* C13: for Mat, after Mat::new((r, c)) and any push_row calls, rows() is
\* the number of rows stored, as_slice().len() = rows() * cols(); a push_row
\* with row.len() = cols() appends the row at the end of the buffer; one with
\* row.len() # cols() returns a ShapeError and changes nothing.  (SpecMat)
C13_MatRowsStored ==
    /\ [](Len(Mat_as_slice(libmat)) = Mat_rows(libmat) * Mat_cols(libmat))
    /\ [][op'.name = "push_row" =>
            IF Len(op'.arg) = Mat_cols(libmat)
            THEN /\ ret'.kind = "Ok"
                 /\ Mat_as_slice(libmat') = Mat_as_slice(libmat) \o op'.arg
            ELSE /\ ret'.kind = "ShapeError"
                 /\ Mat_rows(libmat') = Mat_rows(libmat)
                 /\ Mat_cols(libmat') = Mat_cols(libmat)
                 /\ Mat_as_slice(libmat') = Mat_as_slice(libmat)]_vars

====
